---- MODULE Spec2Model ----
(***************************************************************************)
(* Thread-local retirement bags of src/local.rs (hazard pointers, HP++).   *)
(* Each thread owns one LocalBag (DEF_LOCAL_RETIRED); the bags meet only   *)
(* in the domain's registry of guarded addresses and in the shared         *)
(* structure the nodes are removed from.                                   *)
(***************************************************************************)
EXTENDS Integers, Sequences, FiniteSets, TLC

\* ------------------------------------------------------------------------
\* Constants of the program and bounds of the model
\* ------------------------------------------------------------------------
COUNTS_BETWEEN_COLLECT == 128

\* width of usize in the model (collect_count wraps modulo 2^UsizeBits)
UsizeBits == 16

\* the null address of a guard that protects nothing
NoAddr == 0

\* retirements a thread may perform in one run of Spec
MaxRetire == 3

\* retirements the thread performs in one run of SpecBatch
MaxBatch == 257

\* retirements a bag may already have seen when a run of Spec starts
Prior == 126

\* retirements short of the overflow of the counter when a run of SpecWrap
\* starts
WrapBefore == 2

\* retirements the thread performs in one run of SpecWrap
MaxWrap == 131


\* longest links / to_be_unlinked slices handed to try_unlink
MaxLinks == 2

MaxUnlink == 2

\* addresses that were never part of the shared structure are numbered from
\* ColdBase * thread upwards
ColdBase == 1000000

Threads == {1, 2}

Readers == {1}

\* addresses of the nodes of the shared structure
Nodes == {1, 2, 3}

\* the nodes of the structure two threads work on
SharedNodes == {1, 2}

\* the thread and the node of the single-threaded batch runs
BatchThread == CHOOSE t \in Threads : \A u \in Threads : t <= u

BatchNode == CHOOSE n \in Nodes : \A m \in Nodes : n <= m

\* the places in a batch of 128 at which the batch runs retire the node
BatchSlots == {1, 64, 128}

VARIABLES
    \* LocalBag, one per thread
    retired, hps, collect_count,
    \* position of each thread and the locals of the call it is in
    pc, caller, guarded_ptrs, links, to_be_unlinked, idx, tu_hps, unlinked,
    \* the shared structure: reachable nodes and nodes marked by set_stop
    linked, stopped,
    \* reader threads: position, address read, guard, whether it was validated
    rpc, rtarget, rguard, rvalid,
    \* history: what has been retired, marked and freed, by whom
    nretired, ops, freeCount, retiredBy, markCount, retireCount,
    \* history of the reclamation passes: passes started by retirements, and
    \* the guards that protect a record of the bag since before the barrier of
    \* the pass
    passes, passCont,
    \* history of guarding: retirements completed since a node was last guarded
    quiet, tainted, wasGuarded,
    \* history of the calls: result and bag at entry of the last try_unlink
    ret, entry, callMarks, callRetires

bagVars == <<retired, hps, collect_count>>

frameVars == <<pc, caller, guarded_ptrs, links, to_be_unlinked, idx, tu_hps, unlinked>>

sharedVars == <<linked, stopped>>

readerVars == <<rpc, rtarget, rguard, rvalid>>

heapVars == <<nretired, ops, freeCount, retiredBy, markCount, retireCount>>

passVars == <<passes, passCont>>

quietVars == <<quiet, tainted, wasGuarded>>

callVars == <<ret, entry, callMarks, callRetires>>

vars == <<bagVars, frameVars, sharedVars, readerVars, heapVars, passVars, quietVars, callVars>>

\* ------------------------------------------------------------------------
\* Pure helpers
\* ------------------------------------------------------------------------
Range(s) == {s[i] : i \in 1..Len(s)}

\* sequences without repetition of length lo..hi over the set S
RECURSIVE Arrangements(_, _)
Arrangements(S, n) ==
    IF n = 0 THEN {<<>>}
    ELSE UNION {{<<x>> \o s : s \in Arrangements(S \ {x}, n - 1)} : x \in S}

Slices(S, hi) == UNION {Arrangements(S, n) : n \in 1..hi}

\* a counter that stays at the largest value instead of wrapping
saturating_add(c, n) ==
    IF c + n >= 2 ^ UsizeBits THEN (2 ^ UsizeBits) - 1 ELSE c + n


\* a counter that starts again from 0 at the threshold
wrapping_add_reset(c, n) == (c + n) % COUNTS_BETWEEN_COLLECT


\* usize::wrapping_add
wrapping_add(c, n) == (c + n) % (2 ^ UsizeBits)

\* variants of the threshold test: only the first batch triggers a pass ...
ShouldCollect_once(c) == c = COUNTS_BETWEEN_COLLECT

\* ... every retirement from the first threshold on triggers one ...
ShouldCollect_ge(c) == c >= COUNTS_BETWEEN_COLLECT

\* ... the pass comes one retirement early
ShouldCollect_early(c) == (c + 1) % COUNTS_BETWEEN_COLLECT = 0

\* collect_count % COUNTS_BETWEEN_COLLECT == 0
ShouldCollect(c) == c % COUNTS_BETWEEN_COLLECT = 0

\* a filter that returns no record: the guarded ones are lost unfreed
Kept_none(rs, guarded) == <<>>


\* a filter that returns every record, also those it has reclaimed
Kept_all(rs, guarded) == rs

\* a filter that calls the deleter on every record, also those it keeps
Reclaimed_all(rs, guarded) == rs

\* the filter_map of a pass: the records whose address guarded_ptrs contains
\* stay ...
Kept(rs, guarded) == SelectSeq(rs, LAMBDA a : a \in guarded)

\* ... and the deleter is called on the others
Reclaimed(rs, guarded) == SelectSeq(rs, LAMBDA a : a \notin guarded)

\* number of deleter calls on each address of dom when the records fs are
\* reclaimed
Calls(fs, dom) ==
    LET once == Range(fs)
    IN  IF Cardinality(once) = Len(fs)
        THEN [a \in dom |-> IF a \in once THEN 1 ELSE 0]
        ELSE [a \in dom |-> Cardinality({i \in 1..Len(fs) : fs[i] = a})]

\* the n-th address thread t retires that is no node of the structure
Cold(t, n) == ColdBase * t + n

IsCold(a) == a >= ColdBase

\* the bag a thread has after p retirements of unguarded addresses: the
\* records retired since the last pass
PriorBag(t, p) ==
    LET since == p % COUNTS_BETWEEN_COLLECT
    IN  [i \in 1..since |-> Cold(t, p - since + i)]

\* Domain::collect_guarded_ptrs: every address some live guard protects
collect_guarded_ptrs ==
    UNION {Range(hps[t]) \cup Range(tu_hps[t]) : t \in Threads}
        \cup ({rguard[r] : r \in Readers} \ {NoAddr})

\* the live guards as pairs <<owner, address>>
GuardPairsOf(bag_hps, local_hps, reader_hp) ==
    UNION {{<<t, a>> : a \in Range(bag_hps[t]) \cup Range(local_hps[t])} : t \in Threads}
        \cup {<<-r, reader_hp[r]>> : r \in {x \in Readers : reader_hp[x] # NoAddr}}

GuardPairs == GuardPairsOf(hps, tu_hps, rguard)

InRetire(t) ==
    \/ pc[t] \in {"dr_barrier", "dr_collect", "dr_sweep"} /\ caller[t] = "retire"
    \/ pc[t] \in {"pp_barrier", "pp_drop", "pp_collect", "pp_sweep"}

InPass(t) ==
    pc[t] \in {"dr_collect", "dr_sweep", "pp_drop", "pp_collect", "pp_sweep"}


NoEntry == [retired |-> <<>>, hps |-> <<>>, collect_count |-> 0]

\* where a thread continues when the pass it is in has finished
AfterPass(t) ==
    CASE caller[t] = "try_unlink" ->
            IF idx[t] > Len(to_be_unlinked[t]) THEN "idle" ELSE "tu_retire"
      [] caller[t] = "drop" -> "drop_loop"
      [] OTHER -> "idle"

\* the value try_unlink has returned when the thread is back at pos
Returned(t, pos) ==
    IF pos = "idle" THEN (IF unlinked[t] THEN "true" ELSE "false") ELSE ret[t]

\* a guard has just been given up: it no longer protects continuously
ContAfter(pairs) ==
    [t \in Threads |-> IF InPass(t) THEN passCont[t] \cap pairs ELSE passCont[t]]

\* a guard is being set on node a
GuardSet(a) ==
    /\ quiet' = [quiet EXCEPT ![a] = 0]
    /\ tainted' = [t \in Threads |-> IF InRetire(t) THEN tainted[t] \cup {a} ELSE tainted[t]]
    /\ wasGuarded' =
          IF a \in DOMAIN freeCount /\ freeCount[a] = 0 THEN wasGuarded \cup {a} ELSE wasGuarded

\* ------------------------------------------------------------------------
\* Initial states
\* ------------------------------------------------------------------------
\* p[t]: unguarded retirements thread t has performed before the run
InitWith(p, structure) ==
    /\ retired = [t \in Threads |-> PriorBag(t, p[t])]
    /\ hps = [t \in Threads |-> <<>>]
    /\ collect_count = p
    /\ pc = [t \in Threads |-> "idle"]
    /\ caller = [t \in Threads |-> "none"]
    /\ guarded_ptrs = [t \in Threads |-> {}]
    /\ links = [t \in Threads |-> <<>>]
    /\ to_be_unlinked = [t \in Threads |-> <<>>]
    /\ idx = [t \in Threads |-> 1]
    /\ tu_hps = [t \in Threads |-> <<>>]
    /\ unlinked = [t \in Threads |-> FALSE]
    /\ linked = structure
    /\ stopped = {}
    /\ rpc = [r \in Readers |-> "idle"]
    /\ rtarget = [r \in Readers |-> NoAddr]
    /\ rguard = [r \in Readers |-> NoAddr]
    /\ rvalid = [r \in Readers |-> FALSE]
    /\ nretired = p
    /\ ops = [t \in Threads |-> 0]
    /\ freeCount = [a \in UNION {Range(PriorBag(t, p[t])) : t \in Threads} |-> 0]
    /\ retiredBy = [n \in Nodes |-> 0]
    /\ markCount = [n \in Nodes |-> 0]
    /\ retireCount = [n \in Nodes |-> 0]
    /\ passes = [t \in Threads |-> 0]
    /\ passCont = [t \in Threads |-> {}]
    /\ quiet = [n \in Nodes |-> 0]
    /\ tainted = [t \in Threads |-> {}]
    /\ wasGuarded = {}
    /\ ret = [t \in Threads |-> "none"]
    /\ entry = [t \in Threads |-> NoEntry]
    /\ callMarks = [t \in Threads |-> 0]
    /\ callRetires = [t \in Threads |-> 0]

\* the bag of the first thread has already seen Prior retirements of unguarded
\* addresses (fewer than one batch, so no pass has run); the other bags are
\* fresh from LocalBag::new
NearThreshold ==
    [t \in Threads |-> IF t = BatchThread THEN Prior % COUNTS_BETWEEN_COLLECT ELSE 0]

\* two threads and a reader share a structure of two nodes
Init == InitWith(NearThreshold, SharedNodes)

\* one thread unlinks from a structure of three nodes
InitUnlink == InitWith(NearThreshold, Nodes)

\* fresh bags; the structure holds one node
InitBatch == InitWith([t \in Threads |-> 0], {BatchNode})

\* ------------------------------------------------------------------------
\* retire / retire_pp
\* ------------------------------------------------------------------------
\* a retirement that pushes into one bag shared by all threads
Push_shared(t, a, barrier_pc, from, back) ==
    LET c == wrapping_add(collect_count[t], 1)
        g == collect_guarded_ptrs
    IN  /\ retired' = [retired EXCEPT ![BatchThread] = Append(@, a)]
        /\ collect_count' = [collect_count EXCEPT ![t] = c]
        /\ pc' = [pc EXCEPT ![t] = IF ShouldCollect(c) THEN barrier_pc ELSE back]
        /\ caller' = [caller EXCEPT ![t] = IF ShouldCollect(c) THEN from ELSE @]
        /\ linked' = linked \ {a}
        /\ nretired' = [nretired EXCEPT ![t] = @ + 1]
        /\ ops' = [ops EXCEPT ![t] = @ + 1]
        /\ freeCount' = IF a \in DOMAIN freeCount THEN freeCount ELSE freeCount @@ (a :> 0)
        /\ retiredBy' = IF a \in Nodes THEN [retiredBy EXCEPT ![a] = t] ELSE retiredBy
        /\ retireCount' = IF a \in Nodes THEN [retireCount EXCEPT ![a] = @ + 1] ELSE retireCount
        /\ wasGuarded' = IF a \in g THEN wasGuarded \cup {a} ELSE wasGuarded
        /\ UNCHANGED <<hps, guarded_ptrs, tu_hps, unlinked, stopped, readerVars,
                       markCount, passVars, quiet, tainted>>


\* push the record, advance collect_count, start a pass on the threshold
Push(t, a, barrier_pc, from, back) ==
    LET c == wrapping_add(collect_count[t], 1)
        g == collect_guarded_ptrs
        waiting == Range(retired[t]) \cap Nodes
    IN  /\ retired' = [retired EXCEPT ![t] = Append(@, a)]
        /\ collect_count' = [collect_count EXCEPT ![t] = c]
        /\ pc' = [pc EXCEPT ![t] = IF ShouldCollect(c) THEN barrier_pc ELSE back]
        /\ caller' = [caller EXCEPT ![t] = IF ShouldCollect(c) THEN from ELSE @]
        /\ linked' = linked \ {a}
        /\ nretired' = [nretired EXCEPT ![t] = @ + 1]
        /\ ops' = [ops EXCEPT ![t] = @ + 1]
        /\ freeCount' = IF a \in DOMAIN freeCount THEN freeCount ELSE freeCount @@ (a :> 0)
        /\ retiredBy' = IF a \in Nodes THEN [retiredBy EXCEPT ![a] = t] ELSE retiredBy
        /\ retireCount' = IF a \in Nodes THEN [retireCount EXCEPT ![a] = @ + 1] ELSE retireCount
        /\ wasGuarded' = IF a \in g THEN wasGuarded \cup {a} ELSE wasGuarded
        /\ IF ShouldCollect(c)
           THEN /\ tainted' = [tainted EXCEPT ![t] = (g \cup {a}) \cap Nodes]
                /\ quiet' = quiet
           ELSE /\ tainted' = tainted
                /\ quiet' = [n \in Nodes |->
                                IF n \in waiting /\ n \notin g
                                THEN quiet[n] + 1 ELSE quiet[n]]
        /\ UNCHANGED <<hps, guarded_ptrs, tu_hps, unlinked, stopped, readerVars,
                       markCount, passVars>>

\* the addresses a thread may retire next: a node it removes from the structure
Retirable(t) == linked

BeginOp(t) ==
    /\ pc[t] = "idle"
    /\ ret' = [ret EXCEPT ![t] = "none"]
    /\ entry' = [entry EXCEPT ![t] = NoEntry]
    /\ callMarks' = [callMarks EXCEPT ![t] = 0]
    /\ callRetires' = [callRetires EXCEPT ![t] = 0]

retire(t, a) ==
    /\ BeginOp(t)
    /\ Push(t, a, "dr_barrier", "retire", "idle")
    /\ links' = [links EXCEPT ![t] = <<>>]
    /\ to_be_unlinked' = [to_be_unlinked EXCEPT ![t] = <<>>]
    /\ idx' = [idx EXCEPT ![t] = 1]

retire_pp(t, a) ==
    /\ BeginOp(t)
    /\ Push(t, a, "pp_barrier", "retire_pp", "idle")
    /\ links' = [links EXCEPT ![t] = <<>>]
    /\ to_be_unlinked' = [to_be_unlinked EXCEPT ![t] = <<>>]
    /\ idx' = [idx EXCEPT ![t] = 1]

\* ------------------------------------------------------------------------
\* do_reclamation / do_reclamation_pp, one step per access to shared state
\* ------------------------------------------------------------------------
\* membarrier::heavy()
Barrier(t, next) ==
    /\ pc' = [pc EXCEPT ![t] = next]
    /\ passes' = [passes EXCEPT ![t] = IF caller[t] = "drop" THEN @ ELSE @ + 1]
    /\ LET bag == Range(retired[t])
       IN  passCont' = [passCont EXCEPT ![t] = {g \in GuardPairs : g[2] \in bag}]
    /\ UNCHANGED <<bagVars, caller, guarded_ptrs, links, to_be_unlinked, idx, tu_hps,
                   unlinked, sharedVars, readerVars, heapVars, quietVars, callVars>>

\* a pass that filters against an empty snapshot instead of the registry's
Collect_none(t, next) ==
    /\ guarded_ptrs' = [guarded_ptrs EXCEPT ![t] = {}]
    /\ pc' = [pc EXCEPT ![t] = next]
    /\ UNCHANGED <<bagVars, caller, links, to_be_unlinked, idx, tu_hps, unlinked,
                   sharedVars, readerVars, heapVars, passVars, quietVars, callVars>>

\* let guarded_ptrs = self.domain.collect_guarded_ptrs()
Collect(t, next) ==
    /\ guarded_ptrs' = [guarded_ptrs EXCEPT ![t] = collect_guarded_ptrs]
    /\ pc' = [pc EXCEPT ![t] = next]
    /\ UNCHANGED <<bagVars, caller, links, to_be_unlinked, idx, tu_hps, unlinked,
                   sharedVars, readerVars, heapVars, passVars, quietVars, callVars>>

\* self.retired = self.retired.iter().filter_map(...).collect()
Sweep(t) ==
    LET keep == Kept(retired[t], guarded_ptrs[t])
        gone == Reclaimed(retired[t], guarded_ptrs[t])
        staying == Range(keep) \cap Nodes
    IN  /\ retired' = [retired EXCEPT ![t] = keep]
        /\ LET calls == Calls(gone, DOMAIN freeCount)
           IN  freeCount' = [a \in DOMAIN freeCount |-> freeCount[a] + calls[a]]
        /\ guarded_ptrs' = [guarded_ptrs EXCEPT ![t] = {}]
        /\ pc' = [pc EXCEPT ![t] = AfterPass(t)]
        /\ caller' = [caller EXCEPT ![t] = "none"]
        /\ quiet' = [n \in Nodes |->
                        IF caller[t] # "drop" /\ n \in staying /\ n \notin tainted[t]
                        THEN quiet[n] + 1 ELSE quiet[n]]
        /\ tainted' = [tainted EXCEPT ![t] = {}]
        /\ UNCHANGED <<hps, collect_count, links, to_be_unlinked, idx, tu_hps, unlinked,
                       sharedVars, readerVars, nretired, ops, retiredBy, markCount,
                       retireCount, passes, passCont, wasGuarded, entry,
                       callMarks, callRetires>>
        /\ ret' = [ret EXCEPT ![t] =
                      IF caller[t] = "try_unlink" THEN Returned(t, AfterPass(t)) ELSE @]

\* a plain pass that drops the retained guards as the guard-transferring one
\* does
do_reclamation_barrier_dropping(t) ==
    /\ pc[t] = "dr_barrier"
    /\ hps' = [hps EXCEPT ![t] = <<>>]
    /\ pc' = [pc EXCEPT ![t] = "dr_collect"]
    /\ UNCHANGED <<retired, collect_count, caller, guarded_ptrs, links, to_be_unlinked,
                   idx, tu_hps, unlinked, sharedVars, readerVars, heapVars, passVars,
                   quietVars, callVars>>


do_reclamation_barrier(t) ==
    /\ pc[t] = "dr_barrier"
    /\ Barrier(t, "dr_collect")

do_reclamation_collect(t) ==
    /\ pc[t] = "dr_collect"
    /\ Collect(t, "dr_sweep")

do_reclamation_sweep(t) ==
    /\ pc[t] = "dr_sweep"
    /\ Sweep(t)

\* a guard-transferring pass that goes from the barrier straight to the query
do_reclamation_pp_barrier_nodrop(t) ==
    /\ pc[t] = "pp_barrier"
    /\ Barrier(t, "pp_collect")


do_reclamation_pp_barrier(t) ==
    /\ pc[t] = "pp_barrier"
    /\ Barrier(t, "pp_drop")

\* a guard-transferring pass that forgets to drop the retained guards
do_reclamation_pp_drop_kept(t) ==
    /\ pc[t] = "pp_drop"
    /\ pc' = [pc EXCEPT ![t] = "pp_collect"]
    /\ UNCHANGED <<bagVars, caller, guarded_ptrs, links, to_be_unlinked, idx, tu_hps,
                   unlinked, sharedVars, readerVars, heapVars, passVars, quietVars,
                   callVars>>

\* drop(mem::replace(&mut self.hps, Vec::new()))
do_reclamation_pp_drop(t) ==
    /\ pc[t] = "pp_drop"
    /\ hps' = [hps EXCEPT ![t] = <<>>]
    /\ pc' = [pc EXCEPT ![t] = "pp_collect"]
    /\ passCont' = ContAfter(GuardPairsOf([hps EXCEPT ![t] = <<>>], tu_hps, rguard))
    /\ UNCHANGED <<retired, collect_count, caller, guarded_ptrs, links, to_be_unlinked,
                   idx, tu_hps, unlinked, sharedVars, readerVars, heapVars, passes,
                   quietVars, callVars>>

do_reclamation_pp_collect(t) ==
    /\ pc[t] = "pp_collect"
    /\ Collect(t, "pp_sweep")

do_reclamation_pp_sweep(t) ==
    /\ pc[t] = "pp_sweep"
    /\ Sweep(t)

\* ------------------------------------------------------------------------
\* try_unlink
\* ------------------------------------------------------------------------
\* the call starts: links and to_be_unlinked are what the caller read from
\* the structure
try_unlink(t, ls, us) ==
    /\ pc[t] = "idle"
    /\ pc' = [pc EXCEPT ![t] = "tu_protect"]
    /\ links' = [links EXCEPT ![t] = ls]
    /\ to_be_unlinked' = [to_be_unlinked EXCEPT ![t] = us]
    /\ idx' = [idx EXCEPT ![t] = 1]
    /\ tu_hps' = [tu_hps EXCEPT ![t] = <<>>]
    /\ unlinked' = [unlinked EXCEPT ![t] = FALSE]
    /\ ret' = [ret EXCEPT ![t] = "none"]
    /\ entry' = [entry EXCEPT ![t] =
                    [retired |-> retired[t], hps |-> hps[t],
                     collect_count |-> collect_count[t]]]
    /\ callMarks' = [callMarks EXCEPT ![t] = 0]
    /\ callRetires' = [callRetires EXCEPT ![t] = 0]
    /\ UNCHANGED <<bagVars, caller, guarded_ptrs, sharedVars, readerVars, heapVars,
                   passVars, quietVars>>

\* a protect loop that acquires no guard
try_unlink_protect_unset(t) ==
    /\ pc[t] = "tu_protect"
    /\ idx[t] <= Len(links[t])
    /\ idx' = [idx EXCEPT ![t] = @ + 1]
    /\ pc' = [pc EXCEPT ![t] = IF idx[t] + 1 > Len(links[t]) THEN "tu_unlink" ELSE @]
    /\ UNCHANGED <<bagVars, caller, guarded_ptrs, links, to_be_unlinked, tu_hps, unlinked,
                   sharedVars, readerVars, heapVars, passVars, quietVars, callVars>>


\* one iteration of links.iter().map(|&ptr| { hp.protect_raw(ptr); hp })
try_unlink_protect(t) ==
    /\ pc[t] = "tu_protect"
    /\ idx[t] <= Len(links[t])
    /\ tu_hps' = [tu_hps EXCEPT ![t] = Append(@, links[t][idx[t]])]
    /\ idx' = [idx EXCEPT ![t] = @ + 1]
    /\ pc' = [pc EXCEPT ![t] = IF idx[t] + 1 > Len(links[t]) THEN "tu_unlink" ELSE @]
    /\ GuardSet(links[t][idx[t]])
    /\ UNCHANGED <<bagVars, caller, guarded_ptrs, links, to_be_unlinked, unlinked,
                   sharedVars, readerVars, heapVars, passVars, callVars>>

\* the removal the caller's closure performs succeeds only while every node to
\* remove is still reachable and no protected link has been marked
CanUnlink(t) ==
    /\ Range(to_be_unlinked[t]) \subseteq linked
    /\ Range(links[t]) \cap stopped = {}

\* let unlinked = do_unlink()
try_unlink_do_unlink(t, ok) ==
    /\ pc[t] = "tu_unlink"
    /\ ok => CanUnlink(t)
    /\ unlinked' = [unlinked EXCEPT ![t] = ok]
    /\ linked' = IF ok THEN linked \ Range(to_be_unlinked[t]) ELSE linked
    /\ idx' = [idx EXCEPT ![t] = 1]
    /\ pc' = [pc EXCEPT ![t] = IF ok THEN "tu_mark" ELSE "tu_fail"]
    /\ UNCHANGED <<bagVars, caller, guarded_ptrs, links, to_be_unlinked, tu_hps, stopped,
                   readerVars, heapVars, passVars, quietVars, callVars>>

\* a marking loop that advances without calling set_stop
try_unlink_set_stop_unmarked(t) ==
    /\ pc[t] = "tu_mark"
    /\ idx[t] <= Len(to_be_unlinked[t])
    /\ idx' = [idx EXCEPT ![t] = @ + 1]
    /\ pc' = [pc EXCEPT ![t] = IF idx[t] + 1 > Len(to_be_unlinked[t]) THEN "tu_append" ELSE @]
    /\ UNCHANGED <<bagVars, caller, guarded_ptrs, links, to_be_unlinked, tu_hps, unlinked,
                   sharedVars, readerVars, heapVars, passVars, quietVars, callVars>>

\* one iteration of for &ptr in to_be_unlinked { set_stop(ptr) }
try_unlink_set_stop(t) ==
    /\ pc[t] = "tu_mark"
    /\ idx[t] <= Len(to_be_unlinked[t])
    /\ stopped' = stopped \cup {to_be_unlinked[t][idx[t]]}
    /\ markCount' = [markCount EXCEPT ![to_be_unlinked[t][idx[t]]] = @ + 1]
    /\ callMarks' = [callMarks EXCEPT ![t] = @ + 1]
    /\ idx' = [idx EXCEPT ![t] = @ + 1]
    /\ pc' = [pc EXCEPT ![t] = IF idx[t] + 1 > Len(to_be_unlinked[t]) THEN "tu_append" ELSE @]
    /\ UNCHANGED <<bagVars, caller, guarded_ptrs, links, to_be_unlinked, tu_hps, unlinked,
                   linked, readerVars, nretired, ops, freeCount, retiredBy, retireCount,
                   passVars, quietVars, ret, entry, callRetires>>

\* local.hps.append(&mut hps)
try_unlink_append(t) ==
    /\ pc[t] = "tu_append"
    /\ hps' = [hps EXCEPT ![t] = @ \o tu_hps[t]]
    /\ tu_hps' = [tu_hps EXCEPT ![t] = <<>>]
    /\ idx' = [idx EXCEPT ![t] = 1]
    /\ pc' = [pc EXCEPT ![t] = "tu_retire"]
    /\ UNCHANGED <<retired, collect_count, caller, guarded_ptrs, links, to_be_unlinked,
                   unlinked, sharedVars, readerVars, heapVars, passVars, quietVars,
                   callVars>>

\* one iteration of for &ptr in to_be_unlinked { local.retire_pp(ptr) }
try_unlink_retire(t) ==
    /\ pc[t] = "tu_retire"
    /\ idx[t] <= Len(to_be_unlinked[t])
    /\ Push(t, to_be_unlinked[t][idx[t]], "pp_barrier", "try_unlink",
            IF idx[t] + 1 > Len(to_be_unlinked[t]) THEN "idle" ELSE "tu_retire")
    /\ idx' = [idx EXCEPT ![t] = @ + 1]
    /\ callRetires' = [callRetires EXCEPT ![t] = @ + 1]
    /\ ret' = [ret EXCEPT ![t] = Returned(t, pc'[t])]
    /\ UNCHANGED <<links, to_be_unlinked, entry, callMarks>>

\* a failure path that moves the guards into the bag instead of dropping them
try_unlink_drop_retained(t) ==
    /\ pc[t] = "tu_fail"
    /\ hps' = [hps EXCEPT ![t] = @ \o tu_hps[t]]
    /\ tu_hps' = [tu_hps EXCEPT ![t] = <<>>]
    /\ pc' = [pc EXCEPT ![t] = "idle"]
    /\ ret' = [ret EXCEPT ![t] = Returned(t, "idle")]
    /\ UNCHANGED <<retired, collect_count, caller, guarded_ptrs, links, to_be_unlinked,
                   idx, unlinked, sharedVars, readerVars, heapVars, passVars,
                   quietVars, entry, callMarks, callRetires>>

\* drop(hps); unlinked
try_unlink_drop(t) ==
    /\ pc[t] = "tu_fail"
    /\ tu_hps' = [tu_hps EXCEPT ![t] = <<>>]
    /\ pc' = [pc EXCEPT ![t] = "idle"]
    /\ ret' = [ret EXCEPT ![t] = Returned(t, "idle")]
    /\ passCont' = ContAfter(GuardPairsOf(hps, [tu_hps EXCEPT ![t] = <<>>], rguard))
    /\ UNCHANGED <<bagVars, caller, guarded_ptrs, links, to_be_unlinked, idx, unlinked,
                   sharedVars, readerVars, heapVars, passes,
                   quietVars, entry, callMarks, callRetires>>

\* ------------------------------------------------------------------------
\* Drop for LocalBag: the thread exits and its bag is torn down
\* ------------------------------------------------------------------------
thread_exit(t) ==
    /\ BeginOp(t)
    /\ pc' = [pc EXCEPT ![t] = "drop_loop"]
    /\ links' = [links EXCEPT ![t] = <<>>]
    /\ to_be_unlinked' = [to_be_unlinked EXCEPT ![t] = <<>>]
    /\ idx' = [idx EXCEPT ![t] = 1]
    /\ UNCHANGED <<bagVars, caller, guarded_ptrs, tu_hps, unlinked, sharedVars,
                   readerVars, heapVars, passVars, quietVars>>

\* a teardown that leaves the loop without looking at the bag
drop_loop_once(t) ==
    /\ pc[t] = "drop_loop"
    /\ pc' = [pc EXCEPT ![t] = "drop_fields"]
    /\ UNCHANGED <<bagVars, caller, guarded_ptrs, links, to_be_unlinked, idx, tu_hps,
                   unlinked, sharedVars, readerVars, heapVars, passVars, quietVars,
                   callVars>>

\* while !self.retired.is_empty() { self.do_reclamation(); spin_loop() }
drop_loop(t) ==
    /\ pc[t] = "drop_loop"
    /\ pc' = [pc EXCEPT ![t] = IF retired[t] # <<>> THEN "dr_barrier" ELSE "drop_fields"]
    /\ caller' = [caller EXCEPT ![t] = IF retired[t] # <<>> THEN "drop" ELSE @]
    /\ UNCHANGED <<bagVars, guarded_ptrs, links, to_be_unlinked, idx, tu_hps, unlinked,
                   sharedVars, readerVars, heapVars, passVars, quietVars, callVars>>

\* after drop() the fields are dropped: the bag's guards are released
drop_fields(t) ==
    /\ pc[t] = "drop_fields"
    /\ hps' = [hps EXCEPT ![t] = <<>>]
    /\ pc' = [pc EXCEPT ![t] = "dead"]
    /\ passCont' = ContAfter(GuardPairsOf([hps EXCEPT ![t] = <<>>], tu_hps, rguard))
    /\ UNCHANGED <<retired, collect_count, caller, guarded_ptrs, links, to_be_unlinked,
                   idx, tu_hps, unlinked, sharedVars, readerVars, heapVars, passes,
                   quietVars, callVars>>

\* ------------------------------------------------------------------------
\* Readers of the shared structure (application code using HazardPointer)
\* ------------------------------------------------------------------------
\* the reader loads the address of a reachable node
reader_load(r, a) ==
    /\ rpc[r] = "idle"
    /\ a \in linked
    /\ rtarget' = [rtarget EXCEPT ![r] = a]
    /\ rpc' = [rpc EXCEPT ![r] = "loaded"]
    /\ UNCHANGED <<bagVars, frameVars, sharedVars, rguard, rvalid, heapVars, passVars,
                   quietVars, callVars>>

\* HazardPointer::protect_raw
reader_protect(r) ==
    /\ rpc[r] = "loaded"
    /\ rguard' = [rguard EXCEPT ![r] = rtarget[r]]
    /\ rpc' = [rpc EXCEPT ![r] = "protected"]
    /\ GuardSet(rtarget[r])
    /\ UNCHANGED <<bagVars, frameVars, sharedVars, rtarget, rvalid, heapVars, passVars,
                   callVars>>

\* the reader checks that the node is still reachable; if not it gives up
reader_validate(r) ==
    /\ rpc[r] = "protected"
    /\ IF rtarget[r] \in linked
       THEN /\ rpc' = [rpc EXCEPT ![r] = "deref"]
            /\ rvalid' = [rvalid EXCEPT ![r] = TRUE]
            /\ UNCHANGED <<rguard, rtarget, passCont>>
       ELSE /\ rpc' = [rpc EXCEPT ![r] = "idle"]
            /\ rguard' = [rguard EXCEPT ![r] = NoAddr]
            /\ rtarget' = [rtarget EXCEPT ![r] = NoAddr]
            /\ passCont' = ContAfter(GuardPairsOf(hps, tu_hps, [rguard EXCEPT ![r] = NoAddr]))
            /\ UNCHANGED rvalid
    /\ UNCHANGED <<bagVars, frameVars, sharedVars, heapVars, passes,
                   quietVars, callVars>>

\* a reader that dereferences right after setting the guard
reader_skip_validate(r) ==
    /\ rpc[r] = "protected"
    /\ rpc' = [rpc EXCEPT ![r] = "deref"]
    /\ UNCHANGED <<bagVars, frameVars, sharedVars, rtarget, rguard, rvalid, heapVars,
                   passVars, quietVars, callVars>>

\* the dereference is over: the guard is dropped
reader_release(r) ==
    /\ rpc[r] = "deref"
    /\ rpc' = [rpc EXCEPT ![r] = "idle"]
    /\ rguard' = [rguard EXCEPT ![r] = NoAddr]
    /\ rtarget' = [rtarget EXCEPT ![r] = NoAddr]
    /\ rvalid' = [rvalid EXCEPT ![r] = FALSE]
    /\ passCont' = ContAfter(GuardPairsOf(hps, tu_hps, [rguard EXCEPT ![r] = NoAddr]))
    /\ UNCHANGED <<bagVars, frameVars, sharedVars, heapVars, passes,
                   quietVars, callVars>>

\* ------------------------------------------------------------------------
\* Specifications
\* ------------------------------------------------------------------------
Retire == \E t \in Threads : ops[t] < MaxRetire /\ \E a \in Retirable(t) : retire(t, a)

RetirePP == \E t \in Threads : ops[t] < MaxRetire /\ \E a \in Retirable(t) : retire_pp(t, a)

TryUnlink ==
    \E t \in Threads : \E ls \in Slices(linked, MaxLinks) :
        \E us \in Slices(linked \ Range(ls), MaxUnlink) : try_unlink(t, ls, us)

TryUnlinkProtect == \E t \in Threads : try_unlink_protect(t)

TryUnlinkDoUnlink == \E t \in Threads : \E ok \in BOOLEAN : try_unlink_do_unlink(t, ok)

TryUnlinkSetStop == \E t \in Threads : try_unlink_set_stop(t)

TryUnlinkAppend == \E t \in Threads : try_unlink_append(t)

TryUnlinkRetire == \E t \in Threads : try_unlink_retire(t)

TryUnlinkDrop == \E t \in Threads : try_unlink_drop(t)

ReclaimBarrier == \E t \in Threads : do_reclamation_barrier(t)

ReclaimCollect == \E t \in Threads : do_reclamation_collect(t)

ReclaimSweep == \E t \in Threads : do_reclamation_sweep(t)

ReclaimPPBarrier == \E t \in Threads : do_reclamation_pp_barrier(t)

ReclaimPPDrop == \E t \in Threads : do_reclamation_pp_drop(t)

ReclaimPPCollect == \E t \in Threads : do_reclamation_pp_collect(t)

ReclaimPPSweep == \E t \in Threads : do_reclamation_pp_sweep(t)

ThreadExit == \E t \in Threads : thread_exit(t)

DropLoop == \E t \in Threads : drop_loop(t)

DropFields == \E t \in Threads : drop_fields(t)

ReaderLoad == \E r \in Readers : \E a \in Nodes : reader_load(r, a)

ReaderProtect == \E r \in Readers : reader_protect(r)

ReaderValidate == \E r \in Readers : reader_validate(r)

ReaderSkipValidate == \E r \in Readers : reader_skip_validate(r)

ReaderRelease == \E r \in Readers : reader_release(r)

Next ==
    \/ Retire \/ RetirePP
    \/ TryUnlink \/ TryUnlinkProtect \/ TryUnlinkDoUnlink \/ TryUnlinkSetStop
    \/ TryUnlinkAppend \/ TryUnlinkRetire \/ TryUnlinkDrop
    \/ ReclaimBarrier \/ ReclaimCollect \/ ReclaimSweep
    \/ ReclaimPPBarrier \/ ReclaimPPDrop \/ ReclaimPPCollect \/ ReclaimPPSweep
    \/ ThreadExit \/ DropLoop \/ DropFields
    \/ ReaderLoad \/ ReaderProtect \/ ReaderValidate \/ ReaderSkipValidate
    \/ ReaderRelease

Spec == Init /\ [][Next]_vars

\* one thread retires a long run of addresses from a fresh bag while a reader
\* guards the node
\* in the batch runs: a fresh address that was never shared, or the node
BatchRetirable ==
    {Cold(BatchThread, nretired[BatchThread] + 1)}
        \cup {a \in linked : (collect_count[BatchThread] % COUNTS_BETWEEN_COLLECT) + 1 \in BatchSlots}

BatchRetire ==
    /\ ops[BatchThread] < MaxBatch
    /\ \E a \in BatchRetirable : retire(BatchThread, a)

BatchRetirePP ==
    /\ ops[BatchThread] < MaxBatch
    /\ \E a \in BatchRetirable : retire_pp(BatchThread, a)

NextBatch ==
    \/ BatchRetire \/ BatchRetirePP
    \/ ReclaimBarrier \/ ReclaimCollect \/ ReclaimSweep
    \/ ReclaimPPBarrier \/ ReclaimPPDrop \/ ReclaimPPCollect \/ ReclaimPPSweep
    \/ ReaderLoad \/ ReaderProtect \/ ReaderValidate \/ ReaderRelease

SpecBatch == InitBatch /\ [][NextBatch]_vars

\* the bag of the first thread is WrapBefore retirements of unguarded
\* addresses short of the overflow of its counter
NearWrap ==
    [t \in Threads |-> IF t = BatchThread THEN 2 ^ UsizeBits - WrapBefore ELSE 0]

InitWrap == InitWith(NearWrap, {BatchNode})

\* one thread retires fresh addresses across the overflow of the counter
WrapRetire ==
    /\ ops[BatchThread] < MaxWrap
    /\ retire(BatchThread, Cold(BatchThread, nretired[BatchThread] + 1))

WrapRetirePP ==
    /\ ops[BatchThread] < MaxWrap
    /\ retire_pp(BatchThread, Cold(BatchThread, nretired[BatchThread] + 1))

NextWrap ==
    \/ WrapRetire \/ WrapRetirePP
    \/ ReclaimBarrier \/ ReclaimCollect \/ ReclaimSweep
    \/ ReclaimPPBarrier \/ ReclaimPPDrop \/ ReclaimPPCollect \/ ReclaimPPSweep

SpecWrap == InitWrap /\ [][NextWrap]_vars


\* one thread calls try_unlink on a structure of three nodes, retires and
\* exits while a reader guards nodes
UnlinkTry ==
    \E ls \in Slices(linked, MaxLinks) :
        \E us \in Slices(linked \ Range(ls), MaxUnlink) : try_unlink(BatchThread, ls, us)

UnlinkRetire == \E a \in Retirable(BatchThread) : retire(BatchThread, a)

UnlinkExit == thread_exit(BatchThread)

NextUnlink ==
    \/ UnlinkTry \/ UnlinkRetire \/ UnlinkExit
    \/ TryUnlinkProtect \/ TryUnlinkDoUnlink \/ TryUnlinkSetStop
    \/ TryUnlinkAppend \/ TryUnlinkRetire \/ TryUnlinkDrop
    \/ ReclaimBarrier \/ ReclaimCollect \/ ReclaimSweep
    \/ ReclaimPPBarrier \/ ReclaimPPDrop \/ ReclaimPPCollect \/ ReclaimPPSweep
    \/ DropLoop \/ DropFields
    \/ ReaderLoad \/ ReaderProtect \/ ReaderValidate \/ ReaderRelease

SpecUnlink == InitUnlink /\ [][NextUnlink]_vars

\* ------------------------------------------------------------------------
\* Properties
\* ------------------------------------------------------------------------
\* the thread whose bag the record of address a was retired into
Owner(a) == IF IsCold(a) THEN a \div ColdBase ELSE retiredBy[a]

Freed(a) == a \in DOMAIN freeCount /\ freeCount[a] > 0

\* retirements thread t has completed
Completed(t) == nretired[t] - (IF InRetire(t) THEN 1 ELSE 0)

\* C1: a record whose address some guard protects from before the barrier of
\* a reclamation pass until the pass has ended is still in the bag, its
\* destructor not called, when that pass ends (and until the next pass starts)
C1_NoUseAfterFree ==
    \A t \in Threads : \A g \in passCont[t] :
        /\ g[2] \in Range(retired[t])
        /\ freeCount[g[2]] = 0

\* a pass of one thread has ended, has freed records and has kept a record
\* that another thread's guard or a reader's guard protected throughout
C1_Witness ==
    \E t \in Threads :
        /\ pc[t] = "idle"
        /\ \E g \in passCont[t] : g[1] # t
        /\ \E a \in DOMAIN freeCount : Owner(a) = t /\ freeCount[a] = 1

\* C2: every retired record is either still in the bag it was retired into,
\* its destructor never called, or out of every bag with its destructor called
\* exactly once; when the teardown of a bag has finished, the destructor of
\* every record retired into it has been called exactly once
C2_ExactlyOnce ==
    LET unfreed == {a \in DOMAIN freeCount : freeCount[a] = 0}
        once == {a \in DOMAIN freeCount : freeCount[a] = 1}
        bag == [t \in Threads |-> Range(retired[t])]
    IN  /\ unfreed \cup once = DOMAIN freeCount
        /\ unfreed = UNION {bag[t] : t \in Threads}
        /\ \A t \in Threads :
              /\ \A a \in bag[t] : Owner(a) = t
              /\ Cardinality(bag[t]) = Len(retired[t])
              /\ pc[t] = "dead" => bag[t] = {}

\* a bag has been torn down after freeing records in a batch pass and a node
\* that had been guarded while it was retired
C2_Witness ==
    \E t \in Threads :
        /\ pc[t] = "dead"
        /\ passes[t] > 0
        /\ \E n \in wasGuarded : retiredBy[n] = t /\ freeCount[n] = 1

\* C3: when try_unlink has returned after its removal closure succeeded, it
\* returned true, set_stop was called exactly once on every address of
\* to_be_unlinked, and each of them was retired exactly once, into the bag of
\* the calling thread
C3_UnlinkSuccess ==
    \A t \in Threads : (ret[t] # "none" /\ unlinked[t]) =>
        /\ ret[t] = "true"
        /\ callMarks[t] = Len(to_be_unlinked[t])
        /\ callRetires[t] = Len(to_be_unlinked[t])
        /\ \A a \in Range(to_be_unlinked[t]) :
              /\ markCount[a] = 1
              /\ retireCount[a] = 1
              /\ retiredBy[a] = t
              /\ a \in Range(retired[t]) \/ Freed(a)

\* a successful try_unlink over two addresses has returned
C3_Witness ==
    \E t \in Threads :
        /\ ret[t] = "true"
        /\ Len(to_be_unlinked[t]) = 2
        /\ callRetires[t] = 2

\* C4: when try_unlink has returned after its removal closure failed, it
\* returned false, set_stop was never called, nothing was retired, the bag
\* (records, retained guards, counter) is as it was when the call started, and
\* the guards the call acquired are released
C4_UnlinkFailure ==
    \A t \in Threads : (ret[t] # "none" /\ ~unlinked[t]) =>
        /\ ret[t] = "false"
        /\ callMarks[t] = 0
        /\ callRetires[t] = 0
        /\ retired[t] = entry[t].retired
        /\ hps[t] = entry[t].hps
        /\ collect_count[t] = entry[t].collect_count
        /\ tu_hps[t] = <<>>
        /\ \A a \in Range(links[t]) : <<t, a>> \in GuardPairs => a \in Range(hps[t])

\* a failed try_unlink has returned to a thread whose bag retains guards of an
\* earlier successful call
C4_Witness ==
    \E t \in Threads :
        /\ ret[t] = "false"
        /\ links[t] # <<>>
        /\ hps[t] # <<>>
        /\ retired[t] # <<>>

\* C5: a record that is still in its bag has seen fewer than 128 retirements of
\* the owning thread start and complete since its address was last guarded (or,
\* for an address that is never guarded, since its own retirement)
C5_EventualReclamation ==
    \A t \in Threads : \A i \in 1..Len(retired[t]) :
        LET a == retired[t][i]
        IN  IF IsCold(a)
            THEN Completed(t) - (a - ColdBase * t) < COUNTS_BETWEEN_COLLECT
            ELSE quiet[a] < COUNTS_BETWEEN_COLLECT

\* the node was kept while guarded and was freed by the pass that ended the
\* 128th retirement after its guard was released
C5_Witness ==
    /\ Freed(BatchNode)
    /\ BatchNode \in wasGuarded
    /\ quiet[BatchNode] = COUNTS_BETWEEN_COLLECT - 1
    /\ pc[BatchThread] = "idle"

\* some reader's guard protected node a from before the barrier of the thread's
\* last pass until that pass ended
GuardedThroughPass(t, a) == \E r \in Readers : <<-r, a>> \in passCont[t]

\* C6 as stated: with a guard on the node, the 128th retirement runs a pass
\* that keeps the node and frees the 127 others; once the guard is released,
\* one more retirement (the 129th) frees the node and leaves the bag empty
C6_Original ==
    LET t == BatchThread
        A == BatchNode
    IN  /\ (pc[t] = "idle" /\ nretired[t] = 128 /\ GuardedThroughPass(t, A)) =>
              /\ retired[t] = <<A>>
              /\ Cardinality({a \in DOMAIN freeCount : freeCount[a] = 1}) = 127
        /\ (pc[t] = "idle" /\ nretired[t] = 129 /\ GuardedThroughPass(t, A)
                /\ quiet[A] >= 1) =>
              /\ freeCount[A] = 1
              /\ retired[t] = <<>>

\* C6 as amended: the first pass keeps the node and frees the 127 others; after
\* the guard is released the 129th retirement runs no pass and leaves the node
\* and the new record in the bag; the 256th retirement runs the pass that frees
\* the node and leaves the bag empty
C6_GuardedScenario ==
    LET t == BatchThread
        A == BatchNode
    IN  /\ (pc[t] = "idle" /\ nretired[t] = 128 /\ GuardedThroughPass(t, A)) =>
              /\ retired[t] = <<A>>
              /\ freeCount[A] = 0
              /\ Cardinality({a \in DOMAIN freeCount : freeCount[a] = 1}) = 127
              /\ passes[t] = 1
        /\ (pc[t] = "idle" /\ nretired[t] = 129 /\ GuardedThroughPass(t, A)
                /\ quiet[A] >= 1) =>
              /\ retired[t] = <<A, Cold(t, 129)>>
              /\ freeCount[A] = 0
              /\ passes[t] = 1
        /\ (pc[t] = "idle" /\ nretired[t] = 256 /\ retiredBy[A] = t /\ quiet[A] >= 1) =>
              /\ freeCount[A] = 1
              /\ retired[t] = <<>>
              /\ passes[t] = 2

\* the node was guarded through the first pass, the guard is released and the
\* 129th retirement has completed
C6_Witness ==
    /\ pc[BatchThread] = "idle"
    /\ nretired[BatchThread] = 129
    /\ GuardedThroughPass(BatchThread, BatchNode)
    /\ quiet[BatchNode] >= 1
    /\ collect_guarded_ptrs = {}

\* C7: from a fresh bag, after k < 128 retirements no pass has run and the bag
\* holds k records; with no guard on any retired address, the 128th retirement
\* runs a pass that frees all 128 records and leaves the bag empty
C7_BatchThreshold ==
    \A t \in Threads : pc[t] = "idle" =>
        /\ nretired[t] < 128 => passes[t] = 0 /\ Len(retired[t]) = nretired[t]
        /\ (nretired[t] = 128 /\ wasGuarded = {}) =>
              /\ passes[t] = 1
              /\ retired[t] = <<>>
              /\ Cardinality({a \in DOMAIN freeCount : freeCount[a] = 1}) = 128

\* the 128th retirement has completed, the node among the records, never guarded
C7_Witness ==
    /\ pc[BatchThread] = "idle"
    /\ nretired[BatchThread] = 128
    /\ retiredBy[BatchNode] = BatchThread
    /\ wasGuarded = {}
    /\ retired[BatchThread] = <<>>

\* C8: when the teardown of a bag has left its loop, the bag holds no record
\* and the destructor of every record that was retired into it has been called
C8_TeardownDrain ==
    \A t \in Threads : pc[t] \in {"drop_fields", "dead"} =>
        /\ retired[t] = <<>>
        /\ \A a \in DOMAIN freeCount : Owner(a) = t => freeCount[a] >= 1

\* a bag that never ran a pass for a retirement has been torn down; the
\* teardown loop freed its records, among them a node that had been guarded
C8_Witness ==
    \E t \in Threads :
        /\ pc[t] = "dead"
        /\ passes[t] = 0
        /\ nretired[t] > 0
        /\ \E n \in wasGuarded : retiredBy[n] = t /\ freeCount[n] = 1

\* the retained guards of the bag are no longer all there after the step
Released(t) ==
    \/ Len(hps'[t]) < Len(hps[t])
    \/ SubSeq(hps'[t], 1, Len(hps[t])) # hps[t]

\* thread t takes the last step of a reclamation pass
PassEnds(t) == pc[t] \in {"dr_sweep", "pp_sweep"} /\ pc'[t] # pc[t]

\* C9 as stated: retained guards are released only inside a reclamation pass,
\* after its barrier, and when any pass on the bag ends the bag retains none
C9_Original ==
    [][\A t \in Threads :
          /\ Released(t) => InPass(t)
          /\ PassEnds(t) => hps'[t] = <<>>]_vars

\* C9 as amended: retained guards are released only by the drop step of a
\* guard-transferring pass (do_reclamation_pp), which follows its barrier, or
\* when the bag is dropped after its teardown loop; when a guard-transferring
\* pass ends the bag retains none, and a plain pass (do_reclamation) leaves
\* the retained guards as they are
C9_RetainedGuards ==
    [][\A t \in Threads :
          /\ Released(t) => pc[t] \in {"pp_drop", "drop_fields"}
          /\ (pc[t] = "pp_sweep" /\ pc'[t] # pc[t]) => hps'[t] = <<>>
          /\ (pc[t] = "dr_sweep" /\ pc'[t] # pc[t]) => hps'[t] = hps[t]]_vars

\* inside a successful try_unlink a retirement has started a pass, and the
\* pass has dropped the guards the call transferred, after its barrier
C9_Witness ==
    \E t \in Threads :
        /\ pc[t] = "pp_collect"
        /\ caller[t] = "try_unlink"
        /\ links[t] # <<>>
        /\ callRetires[t] > 0
        /\ hps[t] = <<>>

\* C10 as stated: a reader that sets its guard before it dereferences, and
\* keeps it set, never dereferences an address whose record has been freed
C10_Original ==
    \A r \in Readers :
        (rpc[r] = "deref" /\ rguard[r] = rtarget[r]) => ~Freed(rtarget[r])

\* C10 as amended: a reader that sets its guard, then finds the node still
\* reachable, and keeps the guard set, never dereferences an address whose
\* record has been freed
C10_ReaderSafety ==
    \A r \in Readers :
        (rpc[r] = "deref" /\ rguard[r] = rtarget[r] /\ rvalid[r]) => ~Freed(rtarget[r])

\* a reader dereferences a node that has since been retired and that a pass of
\* the retiring thread has kept
C10_Witness ==
    \E r \in Readers : \E t \in Threads :
        /\ rpc[r] = "deref"
        /\ rvalid[r]
        /\ passes[t] > 0
        /\ pc[t] = "idle"
        /\ <<-r, rtarget[r]>> \in passCont[t]
        /\ rtarget[r] \in Range(retired[t])

\* thread t takes the step
Acts(t) == pc'[t] # pc[t] \/ idx'[t] # idx[t] \/ ops'[t] # ops[t]

\* the bag of thread t is not the same after the step
BagChanged(t) ==
    \/ retired'[t] # retired[t]
    \/ hps'[t] # hps[t]
    \/ collect_count'[t] # collect_count[t]

\* C11: a step of one thread changes no bag but that thread's own (records,
\* retained guards, counter), a bag changes only in a step of its own thread,
\* a record enters only the bag of the thread that retires it, and the
\* destructor of a record is called only in a step of the thread that retired
\* it
C11_BagExclusivity ==
    [][\A t \in Threads :
          /\ Acts(t) => \A u \in Threads \ {t} : ~BagChanged(u)
          /\ BagChanged(t) => Acts(t)
          /\ nretired'[t] # nretired[t] =>
                /\ Len(retired'[t]) = Len(retired[t]) + 1
                /\ LET a == retired'[t][Len(retired'[t])]
                   IN  IF IsCold(a) THEN a \div ColdBase = t ELSE retiredBy'[a] = t
          /\ \A a \in DOMAIN freeCount :
                (Owner(a) = t /\ freeCount'[a] # freeCount[a]) => Acts(t)]_vars

\* the teardown of one thread has freed the records of that thread, a node
\* among them, while the bag of the other thread, which has retired a node,
\* holds its record untouched
C11_Witness ==
    \E t \in Threads : \E u \in Threads \ {t} :
        /\ pc[t] = "dead"
        /\ \E m \in Nodes : retiredBy[m] = t /\ freeCount[m] = 1
        /\ \E n \in Nodes : retiredBy[n] = u /\ retired[u] = <<n>>

\* thread t takes the filter step that ends a reclamation pass
SweepStep(t) == pc[t] \in {"dr_sweep", "pp_sweep"} /\ pc'[t] # pc[t]

\* C12: the filter step of a pass leaves in the bag exactly the records that
\* were in it and whose address is in the snapshot the registry returned, their
\* destructor not called, and calls the destructor of every other record that
\* was in the bag exactly once; no other record is touched
C12_ExactPartition ==
    [][\A t \in Threads : SweepStep(t) =>
          LET before == Range(retired[t])
              snapshot == guarded_ptrs[t]
              after == Range(retired'[t])
          IN  /\ after = before \cap snapshot
              /\ Len(retired'[t]) = Cardinality(after)
              /\ DOMAIN freeCount' = DOMAIN freeCount
              /\ \A a \in DOMAIN freeCount :
                    freeCount'[a] =
                        freeCount[a] + (IF a \in before \ snapshot THEN 1 ELSE 0)]_vars

\* a pass started by a retirement has kept the one node a reader guarded and
\* has freed another node of the same bag
C12_Witness ==
    \E t \in Threads : \E n \in Nodes : \E m \in Nodes \ {n} :
        /\ pc[t] = "idle"
        /\ passes[t] > 0
        /\ retired[t] = <<n>>
        /\ GuardedThroughPass(t, n)
        /\ retiredBy[m] = t
        /\ freeCount[m] = 1

\* C13: when the removal closure is invoked, a guard of the call is set on
\* every link address; the closure is invoked once per call (it is reached only
\* from the protect loop, which is entered only when a call starts); set_stop is
\* called only after the closure succeeded and before any retirement of the
\* call; when a retirement of the call starts every removal address is marked
\* and the guards of the call are in the bag, at the first retirement right
\* behind the guards the bag retained when the call started
C13_UnlinkOrder ==
    [][\A t \in Threads :
          /\ (pc[t] = "tu_unlink" /\ pc'[t] # pc[t]) =>
                /\ tu_hps[t] = links[t]
                /\ Range(links[t]) \subseteq collect_guarded_ptrs
                /\ callMarks[t] = 0 /\ callRetires[t] = 0
                /\ pc'[t] \in {"tu_mark", "tu_fail"}
          /\ (pc'[t] = "tu_unlink" /\ pc[t] # pc'[t]) => pc[t] = "tu_protect"
          /\ (pc'[t] = "tu_protect" /\ pc[t] # pc'[t]) => pc[t] = "idle"
          /\ callMarks'[t] > callMarks[t] =>
                /\ unlinked[t]
                /\ callRetires[t] = 0
          /\ callRetires'[t] > callRetires[t] =>
                /\ unlinked[t]
                /\ callMarks[t] = Len(to_be_unlinked[t])
                /\ Range(to_be_unlinked[t]) \subseteq stopped
                /\ tu_hps[t] = <<>>
                /\ callRetires[t] = 0 => hps[t] = entry[t].hps \o links[t]]_vars

\* a successful call over two removal addresses has retired the first and is
\* about to retire the second, the guards of the call in the bag
C13_Witness ==
    \E t \in Threads :
        /\ pc[t] = "tu_retire"
        /\ callRetires[t] = 1
        /\ callMarks[t] = 2
        /\ hps[t] = links[t]
        /\ links[t] # <<>>

\* the steps that continue what thread t has started
Progress(t) ==
    \/ try_unlink_protect(t) \/ try_unlink_set_stop(t) \/ try_unlink_append(t)
    \/ try_unlink_retire(t) \/ try_unlink_drop(t)
    \/ \E ok \in BOOLEAN : try_unlink_do_unlink(t, ok)
    \/ do_reclamation_barrier(t) \/ do_reclamation_collect(t) \/ do_reclamation_sweep(t)
    \/ do_reclamation_pp_barrier(t) \/ do_reclamation_pp_drop(t)
    \/ do_reclamation_pp_collect(t) \/ do_reclamation_pp_sweep(t)
    \/ drop_loop(t) \/ drop_fields(t)

\* the steps that continue what reader r has started: a reader that has
\* loaded an address sets its guard, validates and releases the guard
ReaderProgress(r) == reader_protect(r) \/ reader_validate(r) \/ reader_release(r)

\* every thread that can continue does, and every reader releases its guard
Fairness ==
    /\ \A t \in Threads : WF_vars(Progress(t))
    /\ \A r \in Readers : WF_vars(ReaderProgress(r))

\* fresh bags; one thread unlinks from a structure of three nodes, retires and
\* exits: no retirement reaches the threshold, the passes are those of the
\* teardown
InitTeardown == InitWith([t \in Threads |-> 0], Nodes)

NextTeardown ==
    \/ UnlinkTry \/ UnlinkRetire \/ UnlinkExit
    \/ TryUnlinkProtect \/ TryUnlinkDoUnlink \/ TryUnlinkSetStop
    \/ TryUnlinkAppend \/ TryUnlinkRetire \/ TryUnlinkDrop
    \/ ReclaimBarrier \/ ReclaimCollect \/ ReclaimSweep
    \/ DropLoop \/ DropFields
    \/ ReaderLoad \/ ReaderProtect \/ ReaderValidate \/ ReaderRelease

SpecTeardown == InitTeardown /\ [][NextTeardown]_vars /\ Fairness

\* C14: every guard that application code holds on a retired address is
\* released in the end (readers are fair), so a teardown that has started
\* completes: the loop ends on an empty bag and the bag is dropped
C14_TeardownTerminates ==
    \A t \in Threads : (pc[t] = "drop_loop") ~> (pc[t] = "dead")

\* thread t moves from position from to position to
Moves(t, from, to) == pc[t] = from /\ pc'[t] = to

\* thread t comes to position to from elsewhere
Enters(t, to) == pc'[t] = to /\ pc[t] # to

\* the addresses a guard protects that is not one of thread t's own
GuardedByOthers(t) == {g[2] : g \in {h \in GuardPairs : h[1] # t}}

\* C15: in a pass the registry is queried only after the barrier, and no
\* destructor is called before the snapshot is taken: the barrier step and the
\* query step free nothing and the filter step follows the query; in
\* do_reclamation_pp the retained guards are dropped between the barrier and
\* the query, so the snapshot holds no address that only the bag's own guards
\* protected, and the filter step frees every record outside the snapshot
C15_PassOrder ==
    [][\A t \in Threads :
          /\ Enters(t, "dr_collect") => Moves(t, "dr_barrier", "dr_collect")
          /\ Enters(t, "dr_sweep") => Moves(t, "dr_collect", "dr_sweep")
          /\ Enters(t, "pp_drop") => Moves(t, "pp_barrier", "pp_drop")
          /\ Enters(t, "pp_collect") => Moves(t, "pp_drop", "pp_collect") /\ hps'[t] = <<>>
          /\ Enters(t, "pp_sweep") => Moves(t, "pp_collect", "pp_sweep")
          /\ guarded_ptrs'[t] # guarded_ptrs[t] =>
                pc[t] \in {"dr_collect", "pp_collect", "dr_sweep", "pp_sweep"}
          /\ (\E a \in DOMAIN freeCount : Owner(a) = t /\ freeCount'[a] # freeCount[a]) =>
                pc[t] \in {"dr_sweep", "pp_sweep"}
          /\ Moves(t, "pp_collect", "pp_sweep") =>
                /\ hps[t] = <<>>
                /\ guarded_ptrs'[t] = GuardedByOthers(t)
          /\ (pc[t] = "pp_sweep" /\ pc'[t] # pc[t]) =>
                \A a \in Range(retired[t]) \ guarded_ptrs[t] :
                    freeCount'[a] = freeCount[a] + 1]_vars

\* a successful try_unlink has retired a node that a guard retained by the bag
\* since an earlier call protected; the pass this retirement started has
\* dropped the guard and freed the node
C15_Witness ==
    \E t \in Threads : \E n \in Nodes :
        /\ pc[t] = "idle"
        /\ ret[t] = "true"
        /\ n \in Range(entry[t].hps)
        /\ n \in Range(to_be_unlinked[t])
        /\ passes[t] > 0
        /\ Freed(n)

\* thread t completes the push of a retirement in the step
Retires(t) == nretired'[t] = nretired[t] + 1

\* C16: the counter of a bag changes only in a retirement (retire or
\* retire_pp), by exactly one, and equals the number of retirements into the
\* bag; a retirement starts a pass exactly when the number of retirements
\* after it is a multiple of 128, and one that starts no pass appends its
\* record and calls no destructor; no step of a pass changes the counter
C16_TriggerRule ==
    [][\A t \in Threads :
          /\ collect_count'[t] # collect_count[t] => Retires(t)
          /\ Retires(t) =>
                /\ collect_count'[t] = collect_count[t] + 1
                /\ collect_count'[t] = nretired'[t]
                /\ pc'[t] \in {"dr_barrier", "pp_barrier"}
                      <=> nretired'[t] % COUNTS_BETWEEN_COLLECT = 0
                /\ Len(retired'[t]) = Len(retired[t]) + 1
                /\ SubSeq(retired'[t], 1, Len(retired[t])) = retired[t]
                /\ \A a \in DOMAIN freeCount : freeCount'[a] = freeCount[a]
                /\ nretired'[t] % COUNTS_BETWEEN_COLLECT # 0 => pc'[t] = pc[t]
          /\ (InPass(t) \/ pc[t] \in {"dr_barrier", "pp_barrier"}) =>
                collect_count'[t] = collect_count[t]]_vars

\* two retirements after the first pass: the counter stands at 130, the pass
\* has not reset it, and the bag holds the two records retired since
C16_Witness ==
    /\ pc[BatchThread] = "idle"
    /\ passes[BatchThread] = 1
    /\ collect_count[BatchThread] = COUNTS_BETWEEN_COLLECT + 2
    /\ Len(retired[BatchThread]) = 2

\* thread t takes a step of a reclamation pass
PassStep(t) ==
    /\ pc[t] \in {"dr_barrier", "dr_collect", "dr_sweep",
                  "pp_barrier", "pp_drop", "pp_collect", "pp_sweep"}
    /\ pc'[t] # pc[t]

\* C17: no step of a pass adds a record to the bag (the records after the step
\* are records of before, none twice) and none changes the counter; the
\* steps of do_reclamation, started by retire or by the teardown, leave the
\* retained guards as they are; of the steps of do_reclamation_pp only the
\* drop changes the retained guards, and it empties them
C17_PassFrame ==
    [][\A t \in Threads : PassStep(t) =>
          /\ Range(retired'[t]) \subseteq Range(retired[t])
          /\ Len(retired'[t]) <= Len(retired[t])
          /\ Cardinality(Range(retired'[t])) = Len(retired'[t])
          /\ collect_count'[t] = collect_count[t]
          /\ nretired'[t] = nretired[t]
          /\ pc[t] \in {"dr_barrier", "dr_collect", "dr_sweep"} => hps'[t] = hps[t]
          /\ pc[t] \in {"pp_barrier", "pp_collect", "pp_sweep"} => hps'[t] = hps[t]
          /\ pc[t] = "pp_drop" => hps'[t] = <<>>
          /\ pc[t] \in {"pp_collect", "pp_sweep"} => hps[t] = <<>>]_vars

\* the teardown of a bag that retains a guard has ended a pass of
\* do_reclamation that freed records and left the guard in the bag
C17_Witness ==
    \E t \in Threads :
        /\ pc[t] = "drop_loop"
        /\ hps[t] # <<>>
        /\ retired[t] = <<>>
        /\ nretired[t] > 0

\* passes thread t has started for its retirements, the one it is about to
\* issue the barrier of included
Triggered(t) == passes[t] + (IF pc[t] \in {"dr_barrier", "pp_barrier"} THEN 1 ELSE 0)

\* C18: the counter is the number of retirements modulo 2^UsizeBits, and as
\* 128 divides 2^UsizeBits the passes stay 128 retirements apart across the
\* overflow: a pass has been triggered for every multiple of 128 the number of
\* retirements has reached, the one that wraps the counter to 0 included, and
\* for no other retirement
C18_Wraparound ==
    \A t \in Threads :
        /\ collect_count[t] = nretired[t] % (2 ^ UsizeBits)
        /\ Triggered(t) =
              (nretired[t] \div COUNTS_BETWEEN_COLLECT)
                  - (NearWrap[t] \div COUNTS_BETWEEN_COLLECT)
        /\ pc[t] \in {"dr_barrier", "pp_barrier"} =>
              nretired[t] % COUNTS_BETWEEN_COLLECT = 0

\* the counter has wrapped to 0, which started a pass, and stands at 128 after
\* 128 more retirements, the second pass done and the bag empty
C18_Witness ==
    /\ pc[BatchThread] = "idle"
    /\ nretired[BatchThread] = 2 ^ UsizeBits + COUNTS_BETWEEN_COLLECT
    /\ collect_count[BatchThread] = COUNTS_BETWEEN_COLLECT
    /\ passes[BatchThread] = 2
    /\ retired[BatchThread] = <<>>

====
